---- MODULE Spec2Model ----
(***************************************************************************)
(* Sandboxed execution backends (app/backends) and the chat task registry  *)
(* (app/api/chat.py with app.utils.task_manager) of fastapi-template.      *)
(*                                                                         *)
(* Strings are sequences of one-character tokens.  Message texts that the  *)
(* code builds from literals are sequences of literal chunks.              *)
(***************************************************************************)
EXTENDS Integers, Sequences, FiniteSets, TLC

(***************************************************************************)
(* Bounds of the model                                                     *)
(***************************************************************************)
\* containers one backend instance may create during a run
MaxContainers == 2
\* largest configured max_output_size
MaxCap == 2
\* longest merged command output is MaxCap + OutExtra characters
OutExtra == 2
\* read()'s default limit of 2000 lines (docker_sandbox.py:274), scaled
DefaultLimit == 2

(***************************************************************************)
(* Program constants                                                       *)
(***************************************************************************)
\* command_timeout default, and the literal timeout of StateSandboxBackend
CommandTimeout == 30
StateTimeout == 30

None == "None"
NL == "\n"
\* a lone surrogate: a Python str character that UTF-8 cannot encode
Surrogate == "S"
\* a byte that is not valid UTF-8, and U+FFFD which decoding puts in its place
BadByte == "X"
Replacement == "R"

WorkingDir == "/workspace"
MissingDir == "/missing"
Paths == {"/workspace/a", "/workspace/b"}

Min(a, b) == IF a < b THEN a ELSE b

(***************************************************************************)
(* Text helpers                                                            *)
(***************************************************************************)
\* str.encode("utf-8"): fails on a lone surrogate
Encodable(s) == \A i \in 1..Len(s) : s[i] # Surrogate
Encode(s) == s
\* bytes.decode("utf-8", errors="replace")
Decode(bytes) == [i \in 1..Len(bytes) |-> IF bytes[i] = BadByte THEN Replacement ELSE bytes[i]]

RECURSIVE SplitAcc(_, _, _)
SplitAcc(s, i, cur) ==
    IF i > Len(s) THEN (IF cur = <<>> THEN <<>> ELSE <<cur>>)
    ELSE IF s[i] = NL THEN <<cur>> \o SplitAcc(s, i + 1, <<>>)
    ELSE SplitAcc(s, i + 1, Append(cur, s[i]))
\* str.splitlines()
SplitLines(s) == SplitAcc(s, 1, <<>>)

\* s[i..i+Len(t)-1] = t
MatchAt(s, t, i) == /\ i + Len(t) - 1 <= Len(s)
                    /\ \A k \in 1..Len(t) : s[i + k - 1] = t[k]

RECURSIVE CountFrom(_, _, _)
CountFrom(s, old, i) ==
    IF i + Len(old) - 1 > Len(s) THEN 0
    ELSE IF MatchAt(s, old, i) THEN 1 + CountFrom(s, old, i + Len(old))
    ELSE CountFrom(s, old, i + 1)
\* str.count(old): non-overlapping occurrences; Len(s) + 1 for the empty string
Count(s, old) == IF old = <<>> THEN Len(s) + 1 ELSE CountFrom(s, old, 1)

RECURSIVE ReplaceFrom(_, _, _, _)
ReplaceFrom(s, old, new, i) ==
    IF i > Len(s) THEN <<>>
    ELSE IF MatchAt(s, old, i) THEN new \o ReplaceFrom(s, old, new, i + Len(old))
    ELSE <<s[i]>> \o ReplaceFrom(s, old, new, i + 1)
RECURSIVE Interleave(_, _, _)
Interleave(s, new, i) ==
    IF i > Len(s) THEN new ELSE new \o <<s[i]>> \o Interleave(s, new, i + 1)
\* str.replace(old, new)
Replace(s, old, new) ==
    IF old = <<>> THEN Interleave(s, new, 1) ELSE ReplaceFrom(s, old, new, 1)

\* perform_string_replacement: an error text, or (new_content, occurrences)
PerformStringReplacement(content, old, new, replace_all) ==
    LET n == Count(content, old) IN
    IF n = 0 THEN [error |-> "string_not_found", content |-> content, occurrences |-> 0]
    ELSE IF n > 1 /\ ~replace_all
         THEN [error |-> "appears_multiple_times", content |-> content, occurrences |-> n]
    ELSE [error |-> None, content |-> Replace(content, old, new), occurrences |-> n]

AllBlank(lines) == \A i \in 1..Len(lines) : lines[i] = <<>>
\* format_read_response: lines offset+1 .. offset+limit, numbered from offset+1
FormatReadResponse(lines, offset, limit) ==
    IF AllBlank(lines) THEN [kind |-> "empty_notice", lines |-> <<>>]
    ELSE IF offset >= Len(lines) THEN [kind |-> "error_offset", lines |-> <<>>]
    ELSE [kind |-> "text",
          lines |-> [k \in 1..(Min(offset + limit, Len(lines)) - offset) |->
                        <<offset + k, lines[offset + k]>>]]

(***************************************************************************)
(* DockerSandboxBackend                                                    *)
(*                                                                         *)
(* docker is the backend object with the daemon-side state it owns:        *)
(*   container        self._container (0 is None)                          *)
(*   daemon           the state of every container this backend created    *)
(*   fs               the files of the container self._container names     *)
(*   files            the keys of self._files (no operation reads a value) *)
(*   auto_remove, max_output_size   configuration                          *)
(* res is what the last call returned, with its arguments.                 *)
(***************************************************************************)
VARIABLES docker, res

EmptyFs == [p \in {} |-> <<>>]
Put(f, p, c) == [q \in DOMAIN f \cup {p} |-> IF q = p THEN c ELSE f[q]]
Del(f, p) == [q \in DOMAIN f \ {p} |-> f[q]]

ApiOutcomes == {"ok", "error"}
Created(b) == Cardinality({c \in DOMAIN b.daemon : b.daemon[c] # "none"})
\* how _create_container may end when this call has to create the container
CreateOutcomes(b) ==
    IF b.container # 0 THEN {"unused"}
    ELSE IF Created(b) < MaxContainers
         THEN {"ok", "image_error", "create_error", "start_error", "mkdir_error"}
    ELSE {"image_error", "create_error"}

ContainerState(b) == IF b.container = 0 THEN "none" ELSE b.daemon[b.container]
Running(b) == ContainerState(b) = "running"
\* get_archive and put_archive also serve a container that is not running
Present(b) == ContainerState(b) \in {"created", "running", "stopped"}

NewContainer(b, n, state) ==
    [b EXCEPT !.container = n, !.daemon[n] = state, !.fs = EmptyFs]

CreateContainer(b, co) ==
    LET n == Created(b) + 1 IN
    CASE co \in {"image_error", "create_error"} -> [b |-> b, raised |-> TRUE]
      [] co = "start_error" -> [b |-> NewContainer(b, n, "created"), raised |-> TRUE]
      [] co = "mkdir_error" -> [b |-> NewContainer(b, n, "running"), raised |-> TRUE]
      [] OTHER -> [b |-> NewContainer(b, n, "running"), raised |-> FALSE]

\* the container property without its test of the handle, creating a container
\* at every use the daemon has room for
ContainerAlwaysCreate(b, co) ==
    IF b.container # 0 /\ Created(b) = MaxContainers THEN [b |-> b, raised |-> FALSE]
    ELSE CreateContainer(b, co)
\* the container property
Container(b, co) ==
    IF b.container # 0 THEN [b |-> b, raised |-> FALSE] ELSE CreateContainer(b, co)

\* _exec_command: exec_run in the container; raises what exec_run raises
ExecCommand(b, co, ex) ==
    LET c == Container(b, co) IN
    IF c.raised THEN [b |-> c.b, raised |-> TRUE]
    ELSE [b |-> c.b, raised |-> (ex = "error" \/ ~Running(c.b))]

\* _read_file_from_container: the decoded content, or None on any exception
ReadFileFromContainer(b, p, co, get) ==
    LET c == Container(b, co) IN
    IF c.raised \/ get = "error" \/ ~Present(c.b) \/ p \notin DOMAIN c.b.fs
    THEN [b |-> c.b, found |-> FALSE, content |-> <<>>]
    ELSE [b |-> c.b, found |-> TRUE, content |-> Decode(c.b.fs[p])]

\* _write_file_to_container naming the archive member by the whole file_path: the
\* upload succeeds and the file lands below the parent directory, not at p
WriteFileToContainerFullName(b, p, content, co, put) ==
    IF ~Encodable(content) THEN [b |-> b, ok |-> FALSE]
    ELSE LET c == Container(b, co) IN
         IF c.raised \/ put = "error" \/ ~Present(c.b) THEN [b |-> c.b, ok |-> FALSE]
         ELSE [b |-> c.b, ok |-> TRUE]

\* _write_file_to_container returning True from its except clause too
WriteFileToContainerAlwaysTrue(b, p, content, co, put) ==
    IF ~Encodable(content) THEN [b |-> b, ok |-> TRUE]
    ELSE LET c == Container(b, co) IN
         IF c.raised \/ put = "error" \/ ~Present(c.b) THEN [b |-> c.b, ok |-> TRUE]
         ELSE [b |-> [c.b EXCEPT !.fs = Put(c.b.fs, p, Encode(content))], ok |-> TRUE]
\* _write_file_to_container: True when the archive was uploaded
WriteFileToContainer(b, p, content, co, put) ==
    IF ~Encodable(content) THEN [b |-> b, ok |-> FALSE]
    ELSE LET c == Container(b, co) IN
         IF c.raised \/ put = "error" \/ ~Present(c.b) THEN [b |-> c.b, ok |-> FALSE]
         ELSE [b |-> [c.b EXCEPT !.fs = Put(c.b.fs, p, Encode(content))], ok |-> TRUE]

WriteResult(path, error) == [path |-> path, error |-> error]

\* write(file_path, content)
Write(b, p, content, w) ==
    LET existing == ReadFileFromContainer(b, p, w.create, w.get) IN
    IF existing.found
    THEN [b |-> existing.b, raised |-> FALSE, result |-> WriteResult(None, "already_exists")]
    ELSE LET mk == ExecCommand(existing.b, w.create, w.exec) IN
         IF mk.raised
         THEN [b |-> mk.b, raised |-> TRUE, result |-> WriteResult(None, None)]
         ELSE LET up == WriteFileToContainer(mk.b, p, content, w.create, w.put) IN
              IF ~up.ok
              THEN [b |-> up.b, raised |-> FALSE, result |-> WriteResult(None, "failed_to_write")]
              ELSE [b |-> [up.b EXCEPT !.files = up.b.files \cup {p}],
                    raised |-> FALSE, result |-> WriteResult(p, None)]

\* read(file_path, offset, limit)
Read(b, p, offset, limit, w) ==
    LET got == ReadFileFromContainer(b, p, w.create, w.get) IN
    IF ~got.found
    THEN [b |-> got.b, raised |-> FALSE, result |-> [kind |-> "error_not_found", lines |-> <<>>]]
    ELSE [b |-> got.b, raised |-> FALSE,
          result |-> FormatReadResponse(SplitLines(got.content), offset, limit)]

EditResult(path, error, occurrences) ==
    [path |-> path, error |-> error, occurrences |-> occurrences]

\* edit with its checks and its report varied: all passes True for replace_all,
\* lenient takes the "not found" answer of the replacement for a success, and
\* one reports a single occurrence
EditVariant(b, p, old, new, replace_all, w, all, lenient, one) ==
    LET got == ReadFileFromContainer(b, p, w.create, w.get) IN
    IF ~got.found
    THEN [b |-> got.b, raised |-> FALSE, uploaded |-> FALSE,
          result |-> EditResult(None, "not_found", 0)]
    ELSE LET rep == PerformStringReplacement(got.content, old, new, replace_all \/ all) IN
         IF rep.error # None /\ ~(lenient /\ rep.error = "string_not_found")
         THEN [b |-> got.b, raised |-> FALSE, uploaded |-> FALSE,
               result |-> EditResult(None, rep.error, 0)]
         ELSE LET up == WriteFileToContainer(got.b, p, rep.content, w.create, w.put) IN
              IF ~up.ok
              THEN [b |-> up.b, raised |-> FALSE, uploaded |-> TRUE,
                    result |-> EditResult(None, "failed_to_write", 0)]
              ELSE [b |-> up.b, raised |-> FALSE, uploaded |-> TRUE,
                    result |-> EditResult(p, None, IF one THEN 1 ELSE rep.occurrences)]
\* edit reporting occurrences=1 whatever the count
EditCountsOne(b, p, old, new, replace_all, w) ==
    EditVariant(b, p, old, new, replace_all, w, FALSE, FALSE, TRUE)
\* edit passing replace_all=True to the replacement
EditAlwaysAll(b, p, old, new, replace_all, w) ==
    EditVariant(b, p, old, new, replace_all, w, TRUE, FALSE, FALSE)
\* edit without the test for the replacement's "not found" answer
EditIgnoresNotFound(b, p, old, new, replace_all, w) ==
    EditVariant(b, p, old, new, replace_all, w, FALSE, TRUE, FALSE)

\* edit(file_path, old_string, new_string, replace_all)
Edit(b, p, old, new, replace_all, w) ==
    LET got == ReadFileFromContainer(b, p, w.create, w.get) IN
    IF ~got.found
    THEN [b |-> got.b, raised |-> FALSE, uploaded |-> FALSE,
          result |-> EditResult(None, "not_found", 0)]
    ELSE LET rep == PerformStringReplacement(got.content, old, new, replace_all) IN
         IF rep.error # None
         THEN [b |-> got.b, raised |-> FALSE, uploaded |-> FALSE,
               result |-> EditResult(None, rep.error, 0)]
         ELSE LET up == WriteFileToContainer(got.b, p, rep.content, w.create, w.put) IN
              IF ~up.ok
              THEN [b |-> up.b, raised |-> FALSE, uploaded |-> TRUE,
                    result |-> EditResult(None, "failed_to_write", 0)]
              ELSE [b |-> [up.b EXCEPT !.files =
                              IF p \in up.b.files THEN up.b.files \cup {p} ELSE up.b.files],
                    raised |-> FALSE, uploaded |-> TRUE,
                    result |-> EditResult(p, None, rep.occurrences)]

(***************************************************************************)
(* execute: messages, truncation, commands                                 *)
(***************************************************************************)
NoOutput == <<"(no output)">>
TimeoutMessage(t) == <<"Error: Command execution timed out (", ToString(t), " seconds limit)">>
ErrorExecuting(msg) == <<"Error executing command: ">> \o msg
\* str(e) of the exceptions a call may meet
ExceptionMessages == {<<>>, <<"boom">>, TimeoutMessage(CommandTimeout)}

ExecuteResponse(output, exit_code, truncated) ==
    [output |-> output, exit_code |-> exit_code, truncated |-> truncated]

\* the truncation test written with >= in place of >
TruncateOutputAtSize(output, max_output_size) ==
    IF Len(output) >= max_output_size
    THEN [output |-> SubSeq(output, 1, max_output_size), truncated |-> TRUE]
    ELSE [output |-> output, truncated |-> FALSE]

\* if len(output) > max_output_size: output = output[:max_output_size]; truncated = True
TruncateOutput(output, max_output_size) ==
    IF Len(output) > max_output_size
    THEN [output |-> SubSeq(output, 1, max_output_size), truncated |-> TRUE]
    ELSE [output |-> output, truncated |-> FALSE]
\* output or "(no output)"
OrNoOutput(output) == IF output = <<>> THEN NoOutput ELSE output

Chars(prefix, n) == [i \in 1..n |-> prefix \o ToString(i)]
MaxOutLen == MaxCap + OutExtra
LongRun == CommandTimeout + 1

\* shell commands run in the container: what they print, return and change
DockerCommands ==
    {[kind |-> "print", out |-> Chars("o", n), code |-> c, dur |-> 1, path |-> None] :
        n \in 0..MaxOutLen, c \in {0, 1}}
    \cup {[kind |-> "print", out |-> <<BadByte>>, code |-> 0, dur |-> 1, path |-> None]}
    \cup {[kind |-> "rm", out |-> <<>>, code |-> 0, dur |-> 1, path |-> p] : p \in Paths}
    \cup {[kind |-> "create", out |-> <<>>, code |-> 0, dur |-> 1, path |-> p] : p \in Paths}
    \cup {[kind |-> "sleep", out |-> <<>>, code |-> 0, dur |-> d, path |-> None] :
            d \in {CommandTimeout, LongRun}}
\* bytes a command of the container stores in the file it creates
CreatedBytes == <<"a", BadByte>>
CommandEffect(cmd, f) ==
    CASE cmd.kind = "rm" -> Del(f, cmd.path)
      [] cmd.kind = "create" -> Put(f, cmd.path, CreatedBytes)
      [] OTHER -> f

\* execute(command) of DockerSandboxBackend
Execute(b, cmd, msg, w) ==
    LET e == ExecCommand(b, w.create, w.exec) IN
    IF e.raised
    THEN [b |-> e.b, raised |-> FALSE, ran |-> FALSE, merged |-> <<>>, elapsed |-> 0,
          result |-> ExecuteResponse(ErrorExecuting(msg), -1, FALSE)]
    ELSE LET output == Decode(cmd.out)
             t == TruncateOutput(output, b.max_output_size)
         IN [b |-> [e.b EXCEPT !.fs = CommandEffect(cmd, e.b.fs)],
             raised |-> FALSE, ran |-> TRUE, merged |-> output, elapsed |-> cmd.dur,
             result |-> ExecuteResponse(OrNoOutput(t.output), cmd.code, t.truncated)]

FileInfo(path, is_dir, size) == [path |-> path, is_dir |-> is_dir, size |-> size]
DirOf(p) == WorkingDir
Dirs == {WorkingDir, MissingDir}

\* ls_info(path): entries parsed from "ls -la"; [] on a non-zero exit or any exception
LsInfo(b, dir, w) ==
    LET e == ExecCommand(b, w.create, w.exec) IN
    IF e.raised \/ dir = MissingDir
    THEN [b |-> e.b, raised |-> FALSE, result |-> {}]
    ELSE [b |-> e.b, raised |-> FALSE,
          result |-> {FileInfo(p, FALSE, Len(e.b.fs[p])) : p \in DOMAIN e.b.fs}]

LineHas(line, ch) == \E i \in 1..Len(line) : line[i] = ch
GrepMatch(path, line, text) == [path |-> path, line |-> line, text |-> text]
FileLines(f, p) == SplitLines(Decode(f[p]))
MatchingLines(f, ch) ==
    {x \in UNION {{<<p, i>> : i \in 1..Len(FileLines(f, p))} : p \in DOMAIN f} :
        LineHas(FileLines(f, x[1])[x[2]], ch)}
\* what "grep -rn pattern dir" prints, read as path:line:text by split(":", 2)
GrepOutput(f, ch, dir) ==
    IF dir = MissingDir
    THEN {GrepMatch("grep", 0, <<" No such file or directory">>)}
    ELSE {GrepMatch(x[1], x[2], FileLines(f, x[1])[x[2]]) : x \in MatchingLines(f, ch)}

\* grep_raw(pattern, path): no try/except around _exec_command
GrepRaw(b, ch, dir, w) ==
    LET e == ExecCommand(b, w.create, w.exec) IN
    IF e.raised THEN [b |-> e.b, raised |-> TRUE, result |-> {}]
    ELSE [b |-> e.b, raised |-> FALSE, result |-> GrepOutput(e.b.fs, ch, dir)]

\* glob_info(pattern, path): find, then one stat per path found; no try/except
GlobInfo(b, dir, w) ==
    LET e == ExecCommand(b, w.create, w.exec) IN
    IF e.raised THEN [b |-> e.b, raised |-> TRUE, result |-> {}]
    ELSE IF dir = MissingDir \/ DOMAIN e.b.fs = {}
         THEN [b |-> e.b, raised |-> FALSE, result |-> {}]
    ELSE IF w.stat = "error" THEN [b |-> e.b, raised |-> TRUE, result |-> {}]
    ELSE [b |-> e.b, raised |-> FALSE,
          result |-> {FileInfo(p, FALSE, Len(e.b.fs[p])) : p \in DOMAIN e.b.fs}]

\* the stop and remove calls cleanup() sends to the daemon
CleanupCalls(b, stop, remove) ==
    IF b.container = 0 THEN <<>>
    ELSE IF stop = "error" \/ b.daemon[b.container] = "removed" \/ b.auto_remove
         THEN <<"stop">>
    ELSE <<"stop", "remove">>

\* cleanup() without its finally clause: the handle is dropped only when stop and
\* remove went through
CleanupHandleKeptOnError(b, stop, remove) ==
    IF b.container = 0 THEN b
    ELSE LET c == b.container
             st == b.daemon[c]
             stopRaised == stop = "error" \/ st = "removed"
             stopped == IF stopRaised THEN st
                        ELSE IF st = "created" THEN "created"
                        ELSE IF b.auto_remove THEN "removed" ELSE "stopped"
             removeRaised == ~stopRaised /\ ~b.auto_remove /\ remove = "error"
             final == IF stopRaised \/ b.auto_remove \/ remove = "error"
                      THEN stopped ELSE "removed"
         IN IF stopRaised \/ removeRaised
            THEN [b EXCEPT !.daemon[c] = final]
            ELSE [b EXCEPT !.container = 0, !.daemon[c] = final, !.fs = EmptyFs]

\* cleanup(): stop, remove unless auto_remove, and drop the handle whatever happened
Cleanup(b, stop, remove) ==
    IF b.container = 0 THEN b
    ELSE LET c == b.container
             st == b.daemon[c]
             stopped == IF stop = "error" \/ st = "removed" THEN st
                        ELSE IF st = "created" THEN "created"
                        ELSE IF b.auto_remove THEN "removed" ELSE "stopped"
             stopRaised == stop = "error" \/ st = "removed"
             final == IF stopRaised \/ b.auto_remove \/ remove = "error"
                      THEN stopped ELSE "removed"
         IN [b EXCEPT !.container = 0, !.daemon[c] = final, !.fs = EmptyFs]

(***************************************************************************)
(* FilesystemSandboxBackend.execute and StateSandboxBackend.execute        *)
(*                                                                         *)
(* A host command is what subprocess.run meets: the process completes      *)
(* with stdout, stderr and a return code after dur seconds, or run raises  *)
(* (bad cwd, undecodable output) with message msg.                         *)
(***************************************************************************)
HostCommands ==
    {[outcome |-> "completed", stdout |-> Chars("o", n), stderr |-> Chars("e", m),
      code |-> c, dur |-> d, msg |-> <<>>] :
        n \in 0..MaxOutLen, m \in 0..1, c \in {0, 1}, d \in {1, LongRun}}
    \cup {[outcome |-> "raises", stdout |-> <<>>, stderr |-> <<>>, code |-> 0, dur |-> 1,
           msg |-> x] : x \in ExceptionMessages}

\* stdout, then "\n" and stderr
Merge(stdout, stderr) ==
    IF stderr = <<>> THEN stdout
    ELSE IF stdout = <<>> THEN stderr ELSE stdout \o <<NL>> \o stderr

\* execute without its "except subprocess.TimeoutExpired" clause: a timeout is
\* reported by the general handler
HostExecuteGeneralHandler(cmd, timeout, max_output_size) ==
    IF cmd.outcome = "raises"
    THEN [raised |-> FALSE, ran |-> FALSE, merged |-> <<>>, elapsed |-> cmd.dur,
          result |-> ExecuteResponse(ErrorExecuting(cmd.msg), -1, FALSE)]
    ELSE IF cmd.dur > timeout
    THEN [raised |-> FALSE, ran |-> FALSE, merged |-> <<>>, elapsed |-> timeout,
          result |-> ExecuteResponse(ErrorExecuting(<<"Command timed out after ",
                                                      ToString(timeout), " seconds">>),
                                     -1, FALSE)]
    ELSE LET output == Merge(cmd.stdout, cmd.stderr)
             t == TruncateOutput(output, max_output_size)
         IN [raised |-> FALSE, ran |-> TRUE, merged |-> output, elapsed |-> cmd.dur,
             result |-> ExecuteResponse(OrNoOutput(t.output), cmd.code, t.truncated)]

\* the body shared by both backends' execute, with the backend's timeout
HostExecute(cmd, timeout, max_output_size) ==
    IF cmd.outcome = "raises"
    THEN [raised |-> FALSE, ran |-> FALSE, merged |-> <<>>, elapsed |-> cmd.dur,
          result |-> ExecuteResponse(ErrorExecuting(cmd.msg), -1, FALSE)]
    ELSE IF cmd.dur > timeout
    THEN [raised |-> FALSE, ran |-> FALSE, merged |-> <<>>, elapsed |-> timeout,
          result |-> ExecuteResponse(TimeoutMessage(timeout), -1, FALSE)]
    ELSE LET output == Merge(cmd.stdout, cmd.stderr)
             t == TruncateOutput(output, max_output_size)
         IN [raised |-> FALSE, ran |-> TRUE, merged |-> output, elapsed |-> cmd.dur,
             result |-> ExecuteResponse(OrNoOutput(t.output), cmd.code, t.truncated)]

\* FilesystemSandboxBackend.execute: timeout=self.command_timeout
FilesystemExecute(cmd, max_output_size) == HostExecute(cmd, CommandTimeout, max_output_size)
\* StateSandboxBackend.execute: timeout=30
StateExecute(cmd, max_output_size) == HostExecute(cmd, StateTimeout, max_output_size)

(***************************************************************************)
(* The host's files and the shell commands that work on them.  A path is   *)
(* the sequence of its components; a command names its file by a path that *)
(* is absolute or relative to the working directory of its process.        *)
(***************************************************************************)
\* the root_dir of two users' FilesystemSandboxBackend: /tmp/1001, /tmp/1002
Roots == {<<"tmp", "1001">>, <<"tmp", "1002">>}
\* the working directory of the server process
ServerCwd == <<"srv">>
FileName == "f"
PathArg(abs, comps) == [abs |-> abs, comps |-> comps]
\* f, and ../<user>/f for each root
RelativePaths ==
    {PathArg(FALSE, <<FileName>>)}
    \cup {PathArg(FALSE, <<"..", r[2], FileName>>) : r \in Roots}
\* /f and f
StatePaths == {PathArg(TRUE, <<FileName>>), PathArg(FALSE, <<FileName>>)}

RECURSIVE Walk(_, _)
Walk(dir, comps) ==
    IF comps = <<>> THEN dir
    ELSE IF Head(comps) = ".."
         THEN Walk(IF dir = <<>> THEN dir ELSE SubSeq(dir, 1, Len(dir) - 1), Tail(comps))
    ELSE Walk(Append(dir, Head(comps)), Tail(comps))
\* the file a process with working directory cwd means by the path
Resolve(cwd, path) == Walk(IF path.abs THEN <<>> ELSE cwd, path.comps)
Under(k, dir) == Len(k) > Len(dir) /\ SubSeq(k, 1, Len(dir)) = dir
FilesUnder(d, dir) == [k \in {q \in DOMAIN d : Under(q, dir)} |-> d[k]]
InDir(k, dir) == Len(k) = Len(dir) + 1 /\ Under(k, dir)

Shell(kind, path) == [kind |-> kind, path |-> path]
ShellCommands(paths) ==
    {Shell("pwd", PathArg(FALSE, <<>>)), Shell("rm -f *", PathArg(FALSE, <<>>))}
    \cup {Shell(k, q) : k \in {"rm -f", "cat", "echo a >"}, q \in paths}

\* subprocess.run(command, shell=True, cwd=cwd): the files afterwards and the
\* completed process
RunShell(d, cwd, sh) ==
    LET k == Resolve(cwd, sh.path)
        done(d2, out, err, code) ==
            [disk |-> d2,
             cmd |-> [outcome |-> "completed", stdout |-> out, stderr |-> err,
                      code |-> code, dur |-> 1, msg |-> <<>>]]
    IN CASE sh.kind = "pwd" -> done(d, cwd, <<>>, 0)
         [] sh.kind = "rm -f *" ->
                done([q \in {x \in DOMAIN d : ~InDir(x, cwd)} |-> d[q]], <<>>, <<>>, 0)
         [] sh.kind = "rm -f" -> done(Del(d, k), <<>>, <<>>, 0)
         [] sh.kind = "echo a >" -> done(Put(d, k, <<"a">>), <<>>, <<>>, 0)
         [] OTHER -> IF k \in DOMAIN d THEN done(d, d[k], <<>>, 0)
                     ELSE done(d, <<>>, <<"cat: No such file or directory">>, 1)

\* FilesystemSandboxBackend(root_dir=root).execute(command): cwd=str(self.cwd)
FilesystemExecuteIn(d, root, sh, max_output_size) ==
    LET run == RunShell(d, root, sh) IN
    [disk |-> run.disk, cwd |-> root, r |-> FilesystemExecute(run.cmd, max_output_size)]

\* StateSandboxBackend.execute running the command on the file mapping
StateExecuteInMapping(d, f, sh, max_output_size) ==
    LET run == RunShell(f, <<>>, sh) IN
    [disk |-> d, files |-> run.disk, cwd |-> <<>>,
     r |-> StateExecute(run.cmd, max_output_size)]
\* StateSandboxBackend.execute(command): no cwd, the process starts in the
\* working directory of the server; self.runtime is not used
StateExecuteIn(d, f, sh, max_output_size) ==
    LET run == RunShell(d, ServerCwd, sh) IN
    [disk |-> run.disk, files |-> f, cwd |-> ServerCwd,
     r |-> StateExecute(run.cmd, max_output_size)]

\* write(name, content) of FilesystemSandboxBackend(root_dir=root), inherited
\* from FilesystemBackend: a new file under the root, an error if it exists
FilesystemWrite(d, root, name, content) ==
    LET k == Append(root, name) IN
    IF k \in DOMAIN d THEN [disk |-> d, result |-> WriteResult(None, "already_exists")]
    ELSE [disk |-> Put(d, k, content), result |-> WriteResult(k, None)]
\* read(name) of the same backend
FilesystemRead(d, root, name) ==
    LET k == Append(root, name) IN
    IF k \in DOMAIN d THEN [found |-> TRUE, content |-> d[k]]
    ELSE [found |-> FALSE, content |-> <<>>]

\* write, edit, read and ls_info of StateSandboxBackend, inherited from
\* StateBackend: they work on the file mapping of the agent's state
StateWrite(f, k, content) ==
    IF k \in DOMAIN f THEN [files |-> f, result |-> WriteResult(None, "already_exists")]
    ELSE [files |-> Put(f, k, content), result |-> WriteResult(k, None)]
StateEdit(f, k, old, new) ==
    IF k \notin DOMAIN f THEN [files |-> f, result |-> EditResult(None, "not_found", 0)]
    ELSE LET rep == PerformStringReplacement(f[k], old, new, FALSE) IN
         IF rep.error # None THEN [files |-> f, result |-> EditResult(None, rep.error, 0)]
         ELSE [files |-> Put(f, k, rep.content), result |-> EditResult(k, None, rep.occurrences)]
StateRead(f, k) ==
    IF k \in DOMAIN f THEN [found |-> TRUE, content |-> f[k]]
    ELSE [found |-> FALSE, content |-> <<>>]
StateLsInfo(f) == DOMAIN f

(***************************************************************************)
(* State and actions of the backends                                       *)
(***************************************************************************)
\* filesystem, state: the configuration of the two host backends
\* fresh: the path and content of the last successful Docker write while no
\*        write, edit, execute or cleanup followed it (history variable)
VARIABLES filesystem, state, fresh
\* disk:  the files of the host, by absolute path
\* files: the in-memory file mapping of the state backend, by path
VARIABLES disk, files
\* loop:     the handler that occupies the thread of the event loop, 0 when the
\*           loop is free to run the next ready handler
\* handlers: the requests of the files API, each with its position in its handler
\* child:    per handler, the child process of its subprocess.run
VARIABLES loop, handlers, child
\* registry: the entries of task_manager
\* req:      the chat and chat_stream requests, each with its position in the handler
\* tasks:    the asyncio task of each request: invoke_task of chat, the task that
\*           runs event_generator of chat_stream
\* stopper:  the stop_chat request
\* hist:     per thread_id, what the calls made so far say about its registration
\*           (history variable)
\* obs:      the last call of task_manager, with its result
VARIABLES registry, req, tasks, stopper, hist, obs

loopVars == <<loop, handlers, child>>
hostVars == <<filesystem, state, disk, files, loopVars>>
taskVars == <<registry, req, tasks, stopper, hist, obs>>

OutputSizes == 0..MaxCap
ManyLines == [i \in 1..(2 * DefaultLimit + 1) |-> IF i % 2 = 1 THEN "a" ELSE NL]
WriteContents == {<<>>, <<"a">>, ManyLines, <<Surrogate>>}
Offsets == {0, 1}
EditPairs == {<<<<"a">>, <<"b">>>>}

NoFresh == [path |-> None, content |-> <<>>]
Weather(co, g, x, u) == [create |-> co, get |-> g, exec |-> x, put |-> u, stat |-> u]
\* every Docker call of the operation returned normally
Healthy(b, w) == /\ w.create \in {"ok", "unused"}
                 /\ w.get = "ok" /\ w.exec = "ok" /\ w.put = "ok"
                 /\ (b.container = 0 \/ Running(b))

\* the outcomes of one Docker call that the operation can tell apart: a call the
\* operation never reaches, or that can only fail, has one
Calls(co, relevant) == IF co \in {"ok", "unused"} /\ relevant THEN ApiOutcomes ELSE {"ok"}
Stored(b, p) == b.container # 0 /\ p \in DOMAIN b.fs

NewBackend(ar, m) ==
    [container |-> 0, daemon |-> [c \in 1..MaxContainers |-> "none"],
     fs |-> EmptyFs, files |-> {}, auto_remove |-> ar, max_output_size |-> m]

DockerWriteOf(paths, contents) ==
    \E p \in paths, c \in contents, co \in CreateOutcomes(docker) :
    \E g \in Calls(co, Stored(docker, p)), x \in Calls(co, TRUE), u \in Calls(co, TRUE) :
        \E w \in {Weather(co, g, x, u)} : \E r \in {Write(docker, p, c, w)} :
           /\ UNCHANGED <<hostVars, taskVars>>
           /\ docker' = r.b
           /\ res' = [op |-> "write", path |-> p, content |-> c, raised |-> r.raised,
                      result |-> r.result, existed |-> p \in DOMAIN docker.fs,
                      healthy |-> Healthy(docker, w)]
           /\ fresh' = IF ~r.raised /\ r.result.path = p
                       THEN [path |-> p, content |-> c] ELSE NoFresh

DockerRead ==
    \E p \in Paths, offset \in Offsets, co \in CreateOutcomes(docker) :
    \E g \in Calls(co, Stored(docker, p)) :
        \E w \in {Weather(co, g, "ok", "ok")} : \E r \in {Read(docker, p, offset, DefaultLimit, w)} :
           /\ UNCHANGED <<hostVars, taskVars>>
           /\ docker' = r.b
           /\ res' = [op |-> "read", path |-> p, offset |-> offset, limit |-> DefaultLimit,
                      raised |-> r.raised, result |-> r.result,
                      existed |-> p \in DOMAIN docker.fs, healthy |-> Healthy(docker, w)]
           /\ fresh' = IF docker.container = 0 THEN NoFresh ELSE fresh

DockerEditOf(paths, pairs, cap) ==
    \E p \in paths, e \in pairs, all \in BOOLEAN, co \in CreateOutcomes(docker) :
    \E g \in Calls(co, Stored(docker, p)), u \in Calls(co, Stored(docker, p)) :
        \E w \in {Weather(co, g, "ok", u)} : \E r \in {Edit(docker, p, e[1], e[2], all, w)} :
           /\ \A q \in DOMAIN r.b.fs : Len(r.b.fs[q]) <= cap
           /\ UNCHANGED <<hostVars, taskVars>>
           /\ docker' = r.b
           /\ res' = [op |-> "edit", path |-> p, old |-> e[1], new |-> e[2],
                      replace_all |-> all, raised |-> r.raised, result |-> r.result,
                      existed |-> p \in DOMAIN docker.fs, uploaded |-> r.uploaded,
                      healthy |-> Healthy(docker, w)]
           /\ fresh' = NoFresh

DockerExecuteOf(cmds, msgs) ==
    \E cmd \in cmds, co \in CreateOutcomes(docker) :
    \E x \in Calls(co, TRUE) :
    \E msg \in IF co \in {"ok", "unused"} /\ x = "ok" /\ Running(docker) THEN {<<>>} ELSE msgs :
        \E w \in {Weather(co, "ok", x, "ok")} : \E r \in {Execute(docker, cmd, msg, w)} :
           /\ UNCHANGED <<hostVars, taskVars>>
           /\ docker' = r.b
           /\ res' = [op |-> "execute", backend |-> "docker", cmd |-> cmd,
                      raised |-> r.raised, result |-> r.result, merged |-> r.merged,
                      elapsed |-> r.elapsed, max_output_size |-> docker.max_output_size,
                      ran |-> r.ran]
           /\ fresh' = NoFresh

DockerLsInfo ==
    \E dir \in Dirs, co \in CreateOutcomes(docker) :
    \E x \in Calls(co, TRUE) :
        \E w \in {Weather(co, "ok", x, "ok")} : \E r \in {LsInfo(docker, dir, w)} :
           /\ UNCHANGED <<hostVars, taskVars>>
           /\ docker' = r.b
           /\ res' = [op |-> "ls_info", dir |-> dir, raised |-> r.raised, result |-> r.result]
           /\ fresh' = IF docker.container = 0 THEN NoFresh ELSE fresh

DockerGrepRaw ==
    \E ch \in {"a"}, dir \in Dirs, co \in CreateOutcomes(docker) :
    \E x \in Calls(co, TRUE) :
        \E w \in {Weather(co, "ok", x, "ok")} : \E r \in {GrepRaw(docker, ch, dir, w)} :
           /\ UNCHANGED <<hostVars, taskVars>>
           /\ docker' = r.b
           /\ res' = [op |-> "grep_raw", dir |-> dir, raised |-> r.raised, result |-> r.result]
           /\ fresh' = IF docker.container = 0 THEN NoFresh ELSE fresh

DockerGlobInfo ==
    \E dir \in Dirs, co \in CreateOutcomes(docker) :
    \E x \in Calls(co, TRUE), u \in Calls(co, dir = WorkingDir /\ docker.container # 0 /\ DOMAIN docker.fs # {}) :
        \E w \in {Weather(co, "ok", x, u)} : \E r \in {GlobInfo(docker, dir, w)} :
           /\ UNCHANGED <<hostVars, taskVars>>
           /\ docker' = r.b
           /\ res' = [op |-> "glob_info", dir |-> dir, raised |-> r.raised, result |-> r.result]
           /\ fresh' = IF docker.container = 0 THEN NoFresh ELSE fresh

DockerCleanup ==
    \E stop \in ApiOutcomes, remove \in ApiOutcomes :
        /\ UNCHANGED <<hostVars, taskVars>>
        /\ docker' = Cleanup(docker, stop, remove)
        /\ res' = [op |-> "cleanup", raised |-> FALSE, had |-> docker.container,
                   calls |-> CleanupCalls(docker, stop, remove)]
        /\ fresh' = NoFresh

\* the container's main process ends on its own (killed, out of memory, daemon
\* restart): the daemon stops the container and removes it under auto_remove
ContainerExits ==
    /\ Running(docker)
    /\ docker' = [docker EXCEPT
                     !.daemon[docker.container] =
                         IF docker.auto_remove THEN "removed" ELSE "stopped",
                     !.fs = IF docker.auto_remove THEN EmptyFs ELSE docker.fs]
    /\ res' = [op |-> "exit", raised |-> FALSE]
    /\ fresh' = NoFresh
    /\ UNCHANGED <<hostVars, taskVars>>

FilesystemSandboxExecute ==
    \E cmd \in HostCommands :
        \E r \in {FilesystemExecute(cmd, filesystem.max_output_size)} :
        /\ res' = [op |-> "execute", backend |-> "filesystem", cmd |-> cmd,
                   raised |-> r.raised, result |-> r.result, merged |-> r.merged,
                   elapsed |-> r.elapsed, max_output_size |-> filesystem.max_output_size,
                   ran |-> r.ran]
        /\ UNCHANGED <<docker, fresh, hostVars, taskVars>>

StateSandboxExecute ==
    \E cmd \in HostCommands :
        \E r \in {StateExecute(cmd, state.max_output_size)} :
        /\ res' = [op |-> "execute", backend |-> "state", cmd |-> cmd,
                   raised |-> r.raised, result |-> r.result, merged |-> r.merged,
                   elapsed |-> r.elapsed, max_output_size |-> state.max_output_size,
                   ran |-> r.ran]
        /\ UNCHANGED <<docker, fresh, hostVars, taskVars>>

\* the operations of two users' filesystem backends and of the state backend
HostUnchanged == UNCHANGED <<docker, fresh, filesystem, state, loopVars, taskVars>>
HostContents == {<<"a">>, <<"b">>}
HostFsWrite ==
    \E root \in Roots, c \in HostContents :
        \E r \in {FilesystemWrite(disk, root, FileName, c)} :
        /\ disk' = r.disk
        /\ res' = [op |-> "write", backend |-> "filesystem", root |-> root,
                   raised |-> FALSE, result |-> r.result]
        /\ UNCHANGED files /\ HostUnchanged
HostFsRead ==
    \E root \in Roots :
        /\ res' = [op |-> "read", backend |-> "filesystem", root |-> root,
                   raised |-> FALSE, result |-> FilesystemRead(disk, root, FileName)]
        /\ UNCHANGED <<disk, files>> /\ HostUnchanged
HostFsExecute ==
    \E root \in Roots, sh \in ShellCommands(RelativePaths) :
        \E e \in {FilesystemExecuteIn(disk, root, sh, filesystem.max_output_size)} :
        /\ disk' = e.disk
        /\ res' = [op |-> "execute", backend |-> "filesystem", root |-> root, sh |-> sh,
                   cwd |-> e.cwd, raised |-> e.r.raised, result |-> e.r.result]
        /\ UNCHANGED files /\ HostUnchanged
HostStateWrite ==
    \E c \in HostContents :
        \E r \in {StateWrite(files, <<FileName>>, c)} :
        /\ files' = r.files
        /\ res' = [op |-> "write", backend |-> "state", path |-> <<FileName>>,
                   raised |-> FALSE, result |-> r.result]
        /\ UNCHANGED disk /\ HostUnchanged
HostStateEdit ==
    \E r \in {StateEdit(files, <<FileName>>, <<"a">>, <<"b">>)} :
        /\ files' = r.files
        /\ res' = [op |-> "edit", backend |-> "state", path |-> <<FileName>>,
                   raised |-> FALSE, result |-> r.result]
        /\ UNCHANGED disk /\ HostUnchanged
HostStateRead ==
    /\ res' = [op |-> "read", backend |-> "state", path |-> <<FileName>>,
               raised |-> FALSE, result |-> StateRead(files, <<FileName>>)]
    /\ UNCHANGED <<disk, files>> /\ HostUnchanged
HostStateLsInfo ==
    /\ res' = [op |-> "ls_info", backend |-> "state", path |-> <<>>,
               raised |-> FALSE, result |-> StateLsInfo(files)]
    /\ UNCHANGED <<disk, files>> /\ HostUnchanged
HostStateExecute ==
    \E sh \in ShellCommands(StatePaths) :
        \E e \in {StateExecuteIn(disk, files, sh, state.max_output_size)} :
        /\ disk' = e.disk
        /\ files' = e.files
        /\ res' = [op |-> "execute", backend |-> "state", sh |-> sh, cwd |-> e.cwd,
                   raised |-> e.r.raised, result |-> e.r.result]
        /\ HostUnchanged

(***************************************************************************)
(* The files API (app.api.files) on the event loop.  An `async def` handler *)
(* runs on the thread of the event loop from its start to its next await or *)
(* its return; list_files and delete_file have no await after their start,  *)
(* upload_file has none after `await file.read()`.                           *)
(***************************************************************************)
NumHandlers == 2
Handlers == 1..NumHandlers
HandlerKinds == {"upload_file", "list_files", "delete_file"}
NoHandler == [kind |-> "None", root |-> <<>>, pc |-> "idle", response |-> "None"]
NoChild == [state |-> "none"]
LoopInitial ==
    /\ loop = 0
    /\ handlers = [t \in Handlers |-> NoHandler]
    /\ child = [t \in Handlers |-> NoChild]

\* find . -type f -exec ls -lh {} \; run with cwd: one line per file under cwd
FindFiles(d, cwd) ==
    [disk |-> d,
     cmd |-> [outcome |-> "completed",
              stdout |-> IF Append(cwd, FileName) \in DOMAIN d THEN <<FileName>> ELSE <<>>,
              stderr |-> <<>>, code |-> 0, dur |-> 1, msg |-> <<>>]]
\* the command of the handler's backend.execute(...)
HandlerCommand(kind) ==
    IF kind = "delete_file" THEN Shell("rm -f", PathArg(FALSE, <<FileName>>))
    ELSE Shell("find", PathArg(FALSE, <<>>))
\* the child process run to its end
RunHandlerCommand(d, cwd, sh) ==
    IF sh.kind = "find" THEN FindFiles(d, cwd) ELSE RunShell(d, cwd, sh)

\* list_files after execute: an empty list for a non-zero exit code, else the
\* parsed lines
ListFilesResponse(result) ==
    IF result.exit_code # 0 THEN "ok_empty"
    ELSE IF result.output = NoOutput THEN "ok_empty" ELSE "ok_files"
\* delete_file after execute: HTTPException(500) for a non-zero exit code
DeleteFileResponse(result) ==
    IF result.exit_code # 0 THEN "error_500" ELSE "ok_deleted"

LoopUnchanged == UNCHANGED <<docker, res, fresh, filesystem, state, files, taskVars>>

\* a request of the files API arrives and its handler is scheduled
FilesArrive(t) ==
    /\ handlers[t].pc = "idle"
    /\ \E kind \in HandlerKinds, root \in Roots :
           handlers' = [handlers EXCEPT ![t] = [kind |-> kind, root |-> root,
                                                pc |-> "ready", response |-> "None"]]
    /\ UNCHANGED <<loop, child, disk>> /\ LoopUnchanged
\* the event loop, free, runs the ready handler up to its synchronous body
FilesStart(t) ==
    /\ loop = 0
    /\ handlers[t].pc = "ready"
    /\ loop' = t
    /\ handlers' = [handlers EXCEPT ![t].pc = "running"]
    /\ UNCHANGED <<child, disk>> /\ LoopUnchanged
\* upload_file: backend.write(safe_filename, ...), its result ignored
FilesUpload(t) ==
    /\ loop = t
    /\ handlers[t].pc = "running" /\ handlers[t].kind = "upload_file"
    /\ \E c \in {<<"a">>, <<"b">>} :
           disk' = FilesystemWrite(disk, handlers[t].root, FileName, c).disk
    /\ handlers' = [handlers EXCEPT ![t].pc = "idle", ![t].response = "ok_uploaded"]
    /\ loop' = 0
    /\ UNCHANGED child /\ LoopUnchanged
\* list_files, delete_file: backend.execute(...) is called in the handler;
\* subprocess.run starts the child and waits for it in the calling thread,
\* which is the thread of the event loop
FilesExecute(t) ==
    /\ loop = t
    /\ handlers[t].pc = "running" /\ handlers[t].kind \in {"list_files", "delete_file"}
    /\ handlers' = [handlers EXCEPT ![t].pc = "in_execute"]
    /\ child' = [child EXCEPT ![t] = [state |-> "running",
                                      sh |-> HandlerCommand(handlers[t].kind)]]
    /\ UNCHANGED <<loop, disk>> /\ LoopUnchanged
\* the child process ends by itself, within the timeout
ChildExit(t) ==
    /\ child[t].state = "running"
    /\ \E run \in {RunHandlerCommand(disk, handlers[t].root, child[t].sh)} :
           /\ disk' = run.disk
           /\ child' = [child EXCEPT ![t] = [state |-> "exited", cmd |-> run.cmd]]
    /\ UNCHANGED <<loop, handlers>> /\ LoopUnchanged
\* command_timeout passes first: subprocess.run kills the child
ChildExpire(t) ==
    /\ child[t].state = "running"
    /\ child' = [child EXCEPT ![t] =
                     [state |-> "exited",
                      cmd |-> [outcome |-> "completed", stdout |-> <<>>, stderr |-> <<>>,
                               code |-> -9, dur |-> CommandTimeout + 1, msg |-> <<>>]]]
    /\ UNCHANGED <<loop, handlers, disk>> /\ LoopUnchanged
\* execute returns and the handler builds its response and returns
FilesReturn(t) ==
    /\ loop = t
    /\ handlers[t].pc = "in_execute"
    /\ child[t].state = "exited"
    /\ \E e \in {FilesystemExecute(child[t].cmd, filesystem.max_output_size)} :
           handlers' = [handlers EXCEPT
                            ![t].pc = "idle",
                            ![t].response = IF handlers[t].kind = "list_files"
                                            THEN ListFilesResponse(e.result)
                                            ELSE DeleteFileResponse(e.result)]
    /\ child' = [child EXCEPT ![t] = NoChild]
    /\ loop' = 0
    /\ UNCHANGED disk /\ LoopUnchanged

backendVars == <<docker, res, fresh, hostVars>>
vars == <<backendVars, taskVars>>

(***************************************************************************)
(* task_manager (app.utils.task_manager)                                   *)
(*                                                                         *)
(* The registry is a set of entries {thread_id, task_handle,               *)
(* stop_requested}; a task handle is the number of the request that owns   *)
(* the task.  Every operation is one atomic step.                          *)
(***************************************************************************)
\* requests that may be in flight together
NumRequests == 2
Requests == 1..NumRequests
Threads == {"t1", "t2"}
Terminal == {"done", "failed", "cancelled"}

Entry(thread_id, task_handle, stop_requested) ==
    [thread_id |-> thread_id, task_handle |-> task_handle, stop_requested |-> stop_requested]
EntriesOf(reg, thread_id) == {e \in reg : e.thread_id = thread_id}

\* register_task that adds the entry and leaves an earlier one in place
RegisterTaskAdd(reg, thread_id, task_handle) ==
    reg \cup {Entry(thread_id, task_handle, FALSE)}

\* register_task that replaces the handle and keeps the stop flag of the entry
RegisterTaskKeepFlag(reg, thread_id, task_handle) ==
    (reg \ EntriesOf(reg, thread_id))
    \cup {Entry(thread_id, task_handle,
                \E e \in EntriesOf(reg, thread_id) : e.stop_requested)}

\* register(thread_id, task_handle): a prior entry of the key is replaced
RegisterTask(reg, thread_id, task_handle) ==
    (reg \ EntriesOf(reg, thread_id)) \cup {Entry(thread_id, task_handle, FALSE)}

\* unregister(thread_id): removes the association unconditionally
UnregisterTask(reg, thread_id) == reg \ EntriesOf(reg, thread_id)

\* request_stop(thread_id): sets the flag; returns whether an entry existed
StopTask(reg, thread_id) ==
    [registry |-> (reg \ EntriesOf(reg, thread_id))
                  \cup {Entry(e.thread_id, e.task_handle, TRUE) :
                            e \in EntriesOf(reg, thread_id)},
     result |-> EntriesOf(reg, thread_id) # {}]

\* is_stopped(thread_id): read-only check of the flag
IsStopped(reg, thread_id) == \E e \in EntriesOf(reg, thread_id) : e.stop_requested

\* cancel(thread_id): cancels the task of the entry; returns whether a handle existed
CancelTask(reg, tk, thread_id) ==
    LET handles == {e.task_handle : e \in EntriesOf(reg, thread_id)} IN
    [tasks |-> [h \in DOMAIN tk |->
                    IF h \in handles /\ tk[h] = "running" THEN "cancelling" ELSE tk[h]],
     result |-> handles # {}]

\* the last task_manager call, with the status stop_chat answers after it
ObserveAnswer(op, thread_id, result, answer) ==
    [op |-> op, thread_id |-> thread_id, result |-> result, before |-> hist[thread_id],
     answer |-> answer]
Observe(op, thread_id, result) == ObserveAnswer(op, thread_id, result, None)
\* what the caller of a request is given: the response or exception that leaves
\* chat, and the last of the stopped/error/done events of a stream
Response(kind, detail) == [kind |-> kind, detail |-> detail]
NoResponse == Response(None, None)
\* raise_client_closed_error(msg) and raise_internal_error(msg): the exception
\* raised, an Exception like every exception class of core/exceptions.py
RaiseClientClosedError(msg) == [class |-> "Exception", response |-> Response("client_closed", msg)]
RaiseInternalError(msg) == [class |-> "Exception", response |-> Response("internal_error", msg)]
\* except Exception: every exception but the BaseException-only ones
ExceptException(e) == e.class = "Exception"
NoRequest ==
    [kind |-> "none", thread_id |-> None, pc |-> "idle", then |-> None,
     stopped |-> FALSE, registered |-> FALSE, unregistered |-> FALSE, exit |-> None,
     response |-> NoResponse]
NewRequest(kind, thread_id, pc) ==
    [NoRequest EXCEPT !.kind = kind, !.thread_id = thread_id, !.pc = pc]
Idle(r) == req[r].pc \in {"idle", "done"}
At(r, kind, pc) == req[r].kind = kind /\ req[r].pc = pc
ExitOr(r, exit) == IF req[r].exit = None THEN exit ELSE req[r].exit

\* await task_manager.unregister_task(thread_id), then the handler goes to pc
UnregisterThen(r, pc, exit, response) ==
    LET t == req[r].thread_id IN
    /\ registry' = UnregisterTask(registry, t)
    /\ hist' = [hist EXCEPT ![t] = "none"]
    /\ obs' = Observe("unregister_task", t, TRUE)
    /\ req' = [req EXCEPT ![r].pc = pc, ![r].exit = ExitOr(r, exit),
                          ![r].unregistered = req[r].registered /\ tasks[r] \in Terminal,
                          ![r].response = response]
    /\ UNCHANGED <<tasks, stopper, backendVars>>
Unregister(r, pc, exit) == UnregisterThen(r, pc, exit, req[r].response)

\* await task_manager.unregister_task(thread_id), then raise e: on to the
\* handler's except Exception clause, or out of the handler
UnregisterRaise(r, exit, e) ==
    IF ExceptException(e) THEN Unregister(r, "c_except", exit)
    ELSE UnregisterThen(r, "done", exit, e.response)

\* await task_manager.register_task(thread_id, task), then the handler goes to pc
Register(r, pc) ==
    LET t == req[r].thread_id IN
    /\ tasks' = [tasks EXCEPT ![r] = "running"]
    /\ registry' = RegisterTask(registry, t, r)
    /\ hist' = [hist EXCEPT ![t] = "registered"]
    /\ obs' = Observe("register_task", t, TRUE)
    /\ req' = [req EXCEPT ![r].pc = pc, ![r].registered = TRUE]
    /\ UNCHANGED <<stopper, backendVars>>

\* a step of the handler that calls no task_manager operation
StepThen(r, pc, exit, response) ==
    /\ req' = [req EXCEPT ![r].pc = pc, ![r].exit = ExitOr(r, exit),
                          ![r].response = response]
    /\ UNCHANGED <<registry, tasks, stopper, hist, obs, backendVars>>
Step(r, pc, exit) == StepThen(r, pc, exit, req[r].response)

(***************************************************************************)
(* chat (non-streaming)                                                    *)
(***************************************************************************)
ChatStart(r) ==
    \E t \in Threads :
        /\ Idle(r)
        /\ req' = [req EXCEPT ![r] = NewRequest("chat", t, "c_setup")]
        /\ tasks' = [tasks EXCEPT ![r] = "none"]
        /\ UNCHANGED <<registry, stopper, hist, obs, backendVars>>

\* save_user_message and get_cached_graph, inside the try
ChatSetup(r) ==
    /\ At(r, "chat", "c_setup")
    /\ \E ok \in BOOLEAN : Step(r, IF ok THEN "c_register" ELSE "c_except", None)

\* invoke_task = asyncio.create_task(...); await task_manager.register_task(...)
ChatRegister(r) == At(r, "chat", "c_register") /\ Register(r, "c_await")

\* compiled_graph.ainvoke running in invoke_task comes to its end
InvokeTaskEnds(r) ==
    /\ req[r].kind = "chat"
    /\ tasks[r] \in {"running", "cancelling"}
    /\ \E o \in IF tasks[r] = "running" THEN {"done", "failed"} ELSE Terminal :
           tasks' = [tasks EXCEPT ![r] = o]
    /\ UNCHANGED <<registry, req, stopper, hist, obs, backendVars>>

\* graph_result = await invoke_task
ChatAwait(r) ==
    /\ At(r, "chat", "c_await")
    /\ tasks[r] \in Terminal
    /\ Step(r, CASE tasks[r] = "done" -> "c_check_stopped"
                 [] tasks[r] = "cancelled" -> "c_cancelled"
                 [] OTHER -> "c_except", None)

\* except asyncio.CancelledError: unregister, raise_client_closed_error
ChatCancelled(r) ==
    /\ At(r, "chat", "c_cancelled")
    /\ UnregisterRaise(r, "cancelled", RaiseClientClosedError("cancelled"))

\* if await task_manager.is_stopped(thread_id)
ChatCheckStopped(r) ==
    /\ At(r, "chat", "c_check_stopped")
    /\ \E s \in {IsStopped(registry, req[r].thread_id)} :
        /\ req' = [req EXCEPT ![r].pc = IF s THEN "c_stopped" ELSE "c_unregister"]
        /\ obs' = Observe("is_stopped", req[r].thread_id, s)
    /\ UNCHANGED <<registry, tasks, stopper, hist, backendVars>>

\* the stopped branch: unregister, raise_client_closed_error
ChatStopped(r) ==
    /\ At(r, "chat", "c_stopped")
    /\ UnregisterRaise(r, "stopped", RaiseClientClosedError("stopped"))

\* await task_manager.unregister_task(thread_id) of the normal path
ChatUnregister(r) == At(r, "chat", "c_unregister") /\ Unregister(r, "c_save", None)

\* save_assistant_message and the response
ChatSave(r) ==
    /\ At(r, "chat", "c_save")
    /\ \E ok \in BOOLEAN :
           IF ok THEN StepThen(r, "done", "success", Response("success", None))
           ELSE Step(r, "c_except", None)

\* except Exception as e: unregister, raise_internal_error(str(e))
ChatExcept(r) ==
    /\ At(r, "chat", "c_except")
    /\ UnregisterThen(r, "done", "error", RaiseInternalError(ExitOr(r, "error")).response)

(***************************************************************************)
(* chat_stream: event_generator                                            *)
(*                                                                         *)
(* At a yield the generator is suspended and its consumer runs: the        *)
(* consumer asks for the next item (the generator goes on at req.then) or  *)
(* stops iterating (s_abandoned), and the generator is closed later.       *)
(***************************************************************************)
\* the awaits inside the try at which the generator can be suspended
StreamAwaits == {"s_graph", "s_next", "s_save"}

\* yield of the event, then go on at pc
Yield(r, pc, exit, event) ==
    /\ req' = [req EXCEPT ![r].pc = "s_yield", ![r].then = pc, ![r].exit = ExitOr(r, exit),
                          ![r].response = Response("event", event)]
    /\ UNCHANGED <<registry, tasks, stopper, hist, obs, backendVars>>

\* the handler body before StreamingResponse(event_generator())
StreamStart(r) ==
    \E t \in Threads :
        /\ Idle(r)
        /\ req' = [req EXCEPT ![r] = NewRequest("stream", t, "s_register")]
        /\ tasks' = [tasks EXCEPT ![r] = "none"]
        /\ UNCHANGED <<registry, stopper, hist, obs, backendVars>>

\* current_task = asyncio.current_task(); await task_manager.register_task(...)
StreamRegister(r) == At(r, "stream", "s_register") /\ Register(r, "s_graph")

\* compiled_graph = await get_cached_graph(...)
StreamGraph(r) ==
    /\ At(r, "stream", "s_graph")
    /\ \E ok \in BOOLEAN : Step(r, IF ok THEN "s_next" ELSE "s_error", None)

\* async for event in compiled_graph.astream_events(...)
StreamNext(r) ==
    /\ At(r, "stream", "s_next")
    /\ \E o \in {"s_poll", "s_after", "s_error"} : Step(r, o, None)

\* if await task_manager.is_stopped(thread_id): stopped = True; yield; break
\* otherwise the event is handled, with or without a yield
StreamPoll(r) ==
    /\ At(r, "stream", "s_poll")
    /\ \E s \in {IsStopped(registry, req[r].thread_id)}, yields \in BOOLEAN :
        /\ req' = [req EXCEPT ![r].stopped = s,
                              ![r].pc = IF s \/ yields THEN "s_yield" ELSE "s_next",
                              ![r].then = IF s THEN "s_after"
                                          ELSE IF yields THEN "s_next" ELSE None,
                              ![r].exit = IF s THEN "stopped" ELSE req[r].exit,
                              ![r].response = IF s THEN Response("event", "stopped")
                                              ELSE req[r].response]
        /\ obs' = Observe("is_stopped", req[r].thread_id, s)
    /\ UNCHANGED <<registry, tasks, stopper, hist, backendVars>>

\* the consumer of the generator at a yield
StreamYield(r) ==
    /\ At(r, "stream", "s_yield")
    /\ \E resumed \in BOOLEAN :
        /\ req' = [req EXCEPT ![r].pc = IF resumed THEN req[r].then ELSE "s_abandoned",
                              ![r].then = None]
        /\ tasks' = [tasks EXCEPT ![r] = IF resumed THEN tasks[r] ELSE "failed"]
    /\ UNCHANGED <<registry, stopper, hist, obs, backendVars>>

\* after the loop, without the test of stopped: the messages are saved
StreamAfterAlwaysSave(r) ==
    /\ At(r, "stream", "s_after")
    /\ Step(r, "s_save", None)
\* after the loop: if stopped: unregister and return; otherwise save the messages
StreamAfter(r) ==
    /\ At(r, "stream", "s_after")
    /\ IF req[r].stopped THEN Unregister(r, "s_finally", "stopped")
       ELSE Step(r, "s_save", None)

\* aget_state, save_assistant_message, yield done
StreamSave(r) ==
    /\ At(r, "stream", "s_save")
    /\ \E ok \in BOOLEAN :
           IF ok THEN Yield(r, "s_finally", "success", "done") ELSE Step(r, "s_error", None)

\* the task is cancelled: CancelledError at the await where the generator is
\* suspended, or in the consumer when the generator is suspended at a yield
StreamCancelDelivered(r) ==
    /\ req[r].kind = "stream"
    /\ tasks[r] = "cancelling"
    /\ req[r].pc \in StreamAwaits \cup {"s_yield"}
    /\ IF req[r].pc = "s_yield"
       THEN /\ req' = [req EXCEPT ![r].pc = "s_abandoned", ![r].then = None,
                                  ![r].exit = ExitOr(r, "cancelled"),
                                  ![r].response = Response("CancelledError", None)]
            /\ tasks' = [tasks EXCEPT ![r] = "cancelled"]
       ELSE /\ req' = [req EXCEPT ![r].pc = "s_cancelled"]
            /\ tasks' = [tasks EXCEPT ![r] = "running"]
    /\ UNCHANGED <<registry, stopper, hist, obs, backendVars>>

\* except asyncio.CancelledError: yield stopped
StreamCancelled(r) ==
    At(r, "stream", "s_cancelled") /\ Yield(r, "s_finally", "cancelled", "stopped")

\* except Exception: yield error
StreamError(r) == At(r, "stream", "s_error") /\ Yield(r, "s_finally", "error", "error")

\* the abandoned generator is closed: GeneratorExit at its yield runs the finally
StreamClosed(r) == At(r, "stream", "s_abandoned") /\ Step(r, "s_finally", "abandoned")

\* the finally clause without its unregister_task
StreamFinallyNoUnregister(r) ==
    /\ At(r, "stream", "s_finally")
    /\ req' = [req EXCEPT ![r].pc = "done"]
    /\ tasks' = [tasks EXCEPT ![r] = IF tasks[r] \in Terminal THEN tasks[r] ELSE "done"]
    /\ UNCHANGED <<registry, stopper, hist, obs, backendVars>>

\* finally: await task_manager.unregister_task(thread_id)
StreamFinally(r) ==
    /\ At(r, "stream", "s_finally")
    /\ registry' = UnregisterTask(registry, req[r].thread_id)
    /\ hist' = [hist EXCEPT ![req[r].thread_id] = "none"]
    /\ obs' = Observe("unregister_task", req[r].thread_id, TRUE)
    /\ req' = [req EXCEPT ![r].pc = "done", ![r].unregistered = req[r].registered]
    /\ tasks' = [tasks EXCEPT ![r] = IF tasks[r] \in Terminal THEN tasks[r] ELSE "done"]
    /\ UNCHANGED <<stopper, backendVars>>

(***************************************************************************)
(* stop_chat                                                               *)
(***************************************************************************)
NoStop == [pc |-> "idle", thread_id |-> None]

\* stop_chat going on to cancel_task whatever stop_task returned
StopChatStopAlwaysCancel ==
    \E t \in Threads : \E s \in {StopTask(registry, t)} :
        /\ stopper.pc = "idle"
        /\ registry' = s.registry
        /\ hist' = [hist EXCEPT ![t] = IF hist[t] = "none" THEN "none" ELSE "stop_requested"]
        /\ obs' = Observe("stop_task", t, s.result)
        /\ stopper' = [pc |-> "x_cancel", thread_id |-> t]
        /\ UNCHANGED <<req, tasks, backendVars>>
\* stopped = await task_manager.stop_task(thread_id); if not stopped: the
\* answer is 'not_running'
StopChatStop ==
    \E t \in Threads : \E s \in {StopTask(registry, t)} :
        /\ stopper.pc = "idle"
        /\ registry' = s.registry
        /\ hist' = [hist EXCEPT ![t] = IF hist[t] = "none" THEN "none" ELSE "stop_requested"]
        /\ obs' = ObserveAnswer("stop_task", t, s.result,
                                IF s.result THEN None ELSE "not_running")
        /\ stopper' = IF s.result THEN [pc |-> "x_cancel", thread_id |-> t] ELSE NoStop
        /\ UNCHANGED <<req, tasks, backendVars>>

\* if stopped: cancelled = await task_manager.cancel_task(thread_id); the
\* answer is 'stopped'
StopChatCancel ==
    \E c \in {CancelTask(registry, tasks, stopper.thread_id)} :
        /\ stopper.pc = "x_cancel"
        /\ tasks' = c.tasks
        /\ obs' = ObserveAnswer("cancel_task", stopper.thread_id, c.result, "stopped")
        /\ stopper' = NoStop
        /\ UNCHANGED <<registry, req, hist, backendVars>>

TaskInitial ==
    /\ registry = {}
    /\ req = [r \in Requests |-> NoRequest]
    /\ tasks = [r \in Requests |-> "none"]
    /\ stopper = NoStop
    /\ hist = [t \in Threads |-> "none"]
    /\ obs = [op |-> "init"]

\* the Docker backend under every sequence of its operations
FileCommands == {c \in DockerCommands : c.kind \in {"rm", "sleep"} \/ Len(c.out) = 1}
DockerInit ==
    /\ docker = NewBackend(TRUE, MaxCap)
    /\ res = [op |-> "init"]
    /\ fresh = NoFresh
    /\ filesystem = [max_output_size |-> MaxCap]
    /\ state = [max_output_size |-> MaxCap]
    /\ LoopInitial
    /\ disk = EmptyFs
    /\ files = EmptyFs
    /\ TaskInitial
DockerExecute == DockerExecuteOf(FileCommands, {<<"boom">>})
DockerWrite == DockerWriteOf(Paths, WriteContents)
DockerEdit == DockerEditOf(Paths, EditPairs, Len(ManyLines))
DockerNext ==
    \/ DockerWrite \/ DockerRead \/ DockerEdit \/ DockerExecute
    \/ DockerLsInfo \/ DockerGrepRaw \/ DockerGlobInfo \/ DockerCleanup
SpecDocker == DockerInit /\ [][DockerNext]_vars

\* edit of one file, with every old and new string over two characters
MaxOldLen == 2
MaxFileLen == 3
Strs(n) == UNION {[1..k -> {"a", "b"}] : k \in 0..n}
EditPath == {"/workspace/a"}
EditWrite == DockerWriteOf(EditPath, Strs(MaxFileLen))
EditEdit == DockerEditOf(EditPath, Strs(MaxOldLen) \X Strs(MaxOldLen), MaxFileLen)
EditNext == EditWrite \/ EditEdit
SpecEdit == DockerInit /\ [][EditNext]_vars

\* files that commands of the container create, then written and edited
BinaryCommands == {c \in DockerCommands : c.kind \in {"create", "rm"}}
BinaryExecute == DockerExecuteOf(BinaryCommands, {<<"boom">>})
BinaryWrite == DockerWriteOf(Paths, {<<"a">>})
BinaryEdit == DockerEditOf(Paths, EditPairs, Len(ManyLines))
BinaryNext == BinaryExecute \/ BinaryWrite \/ BinaryEdit
SpecBinary == DockerInit /\ [][BinaryNext]_vars

\* two users' filesystem backends and the state backend on one host
HostNext ==
    \/ HostFsWrite \/ HostFsRead \/ HostFsExecute
    \/ HostStateWrite \/ HostStateEdit \/ HostStateRead \/ HostStateLsInfo
    \/ HostStateExecute
SpecHost == DockerInit /\ [][HostNext]_vars

\* the handlers of the files API, sharing one event loop
LoopNext ==
    \E t \in Handlers :
        \/ FilesArrive(t) \/ FilesStart(t) \/ FilesUpload(t) \/ FilesExecute(t)
        \/ ChildExit(t) \/ ChildExpire(t) \/ FilesReturn(t)
SpecLoop == DockerInit /\ [][LoopNext]_vars

\* the life of the container, with and without auto_remove
LifecycleInit ==
    \E ar \in BOOLEAN :
        /\ docker = NewBackend(ar, MaxCap)
        /\ res = [op |-> "init"]
        /\ fresh = NoFresh
        /\ filesystem = [max_output_size |-> MaxCap]
        /\ state = [max_output_size |-> MaxCap]
        /\ LoopInitial
        /\ disk = EmptyFs
        /\ files = EmptyFs
        /\ TaskInitial
LifecycleNext == DockerExecute \/ DockerLsInfo \/ DockerCleanup \/ ContainerExits
SpecLifecycle == LifecycleInit /\ [][LifecycleNext]_vars

\* execute of the three backends, under every configured max_output_size
ExecInit ==
    \E m \in OutputSizes :
        /\ docker = NewBackend(TRUE, m)
        /\ res = [op |-> "init"]
        /\ fresh = NoFresh
        /\ filesystem = [max_output_size |-> m]
        /\ state = [max_output_size |-> m]
        /\ LoopInitial
        /\ disk = EmptyFs
        /\ files = EmptyFs
        /\ TaskInitial
DockerSandboxExecute == DockerExecuteOf(DockerCommands, ExceptionMessages)
ExecNext == DockerSandboxExecute \/ FilesystemSandboxExecute \/ StateSandboxExecute
SpecExec == ExecInit /\ [][ExecNext]_vars

\* the chat, chat_stream and stop_chat requests, interleaved at their awaits
TaskInit ==
    /\ docker = NewBackend(TRUE, MaxCap)
    /\ res = [op |-> "init"]
    /\ fresh = NoFresh
    /\ filesystem = [max_output_size |-> MaxCap]
    /\ state = [max_output_size |-> MaxCap]
    /\ LoopInitial
    /\ disk = EmptyFs
    /\ files = EmptyFs
    /\ TaskInitial
ChatNext(r) ==
    \/ ChatStart(r) \/ ChatSetup(r) \/ ChatRegister(r) \/ InvokeTaskEnds(r) \/ ChatAwait(r)
    \/ ChatCancelled(r) \/ ChatCheckStopped(r) \/ ChatStopped(r) \/ ChatUnregister(r)
    \/ ChatSave(r) \/ ChatExcept(r)
StreamNextStep(r) ==
    \/ StreamStart(r) \/ StreamRegister(r) \/ StreamGraph(r) \/ StreamNext(r)
    \/ StreamPoll(r) \/ StreamYield(r) \/ StreamAfter(r) \/ StreamSave(r)
    \/ StreamCancelDelivered(r) \/ StreamCancelled(r) \/ StreamError(r)
    \/ StreamClosed(r) \/ StreamFinally(r)
TaskNext ==
    \/ \E r \in Requests : ChatNext(r)
    \/ \E r \in Requests : StreamNextStep(r)
    \/ StopChatStop
    \/ StopChatCancel
SpecTask == TaskInit /\ [][TaskNext]_vars

(***************************************************************************)
(* Properties of the backends                                              *)
(***************************************************************************)
Numbered(lines, n) == [i \in 1..n |-> <<i, lines[i]>>]
HostBackends == {"filesystem", "state"}
DockerOps == {"ls_info", "read", "write", "edit", "grep_raw", "glob_info", "execute"}

\* C1: a write(P, C2) issued when an earlier write(P, C1) of this backend has
\* succeeded and the file is still stored at P returns an error and no path,
\* raises nothing, and leaves the content stored at P as it was.
C1_NoClobber ==
    [][(/\ res'.op = "write"
        /\ res'.path \in docker.files
        /\ Stored(docker, res'.path))
       => (/\ ~res'.raised
           /\ res'.result.error # None
           /\ res'.result.path = None
           /\ Stored(docker', res'.path)
           /\ docker'.fs[res'.path] = docker.fs[res'.path])]_vars

\* C2 as stated: after write(P, C) succeeded on a fresh path P, a read(P) with the
\* default offset and limit, with no write, edit, execute or cleanup in between
\* and every Docker call succeeding, returns every line of C in order, numbered
\* from 1, and no error.
C2_RoundTripEveryLine ==
    (/\ res.op = "read" /\ res.healthy /\ res.offset = 0 /\ res.limit = DefaultLimit
     /\ fresh.path = res.path)
    => LET lines == SplitLines(fresh.content) IN
       /\ ~res.raised
       /\ res.result.kind \in {"text", "empty_notice"}
       /\ (res.result.kind = "text" => res.result.lines = Numbered(lines, Len(lines)))

\* C2: for UTF-8-encodable content C and a path P where no file exists, with every
\* Docker call succeeding, write(P, C) returns path P and no error and stores the
\* encoded C at P; a read(P) with the default offset and limit issued afterwards,
\* with no write, edit, execute or cleanup in between, returns no error: the
\* empty-file notice when every line of C is blank, and otherwise the first
\* min(n, limit) of the n lines of C in order, numbered from 1.
C2_RoundTrip ==
    /\ (/\ res.op = "write" /\ res.healthy /\ ~res.existed /\ Encodable(res.content))
       => /\ ~res.raised
          /\ res.result = WriteResult(res.path, None)
          /\ Stored(docker, res.path)
          /\ docker.fs[res.path] = Encode(res.content)
          /\ fresh = [path |-> res.path, content |-> res.content]
    /\ (/\ res.op = "read" /\ res.healthy /\ res.offset = 0 /\ res.limit = DefaultLimit
        /\ fresh.path = res.path)
       => LET lines == SplitLines(fresh.content) IN
          /\ ~res.raised
          /\ res.result =
               IF AllBlank(lines) THEN [kind |-> "empty_notice", lines |-> <<>>]
               ELSE [kind |-> "text",
                     lines |-> Numbered(lines, Min(Len(lines), DefaultLimit))]

\* a read of a freshly written file that has more lines than the default limit
C2_Witness ==
    /\ res.op = "read" /\ res.healthy /\ res.offset = 0 /\ fresh.path = res.path
    /\ Len(SplitLines(fresh.content)) > DefaultLimit
    /\ res.result.kind = "text"
    /\ Len(res.result.lines) = DefaultLimit

\* C7 as stated: with n the length of the merged output of a command that ran and
\* m = max_output_size: n = m + 1 gives truncated and len(output) = m; n <= m gives
\* not truncated and the output returned whole; truncated iff n > m; and
\* len(output) <= m when truncated.
C7_TruncationBoundary ==
    (res.op = "execute" /\ res.ran)
    => LET n == Len(res.merged)
           m == res.max_output_size
       IN /\ (n = m + 1 => res.result.truncated /\ Len(res.result.output) = m)
          /\ (n <= m => ~res.result.truncated /\ res.result.output = res.merged)
          /\ (res.result.truncated <=> n > m)
          /\ (res.result.truncated => Len(res.result.output) <= m)

\* C7: in all three backends, for a command that ran with merged output of n
\* characters and m = max_output_size: truncated iff n > m; the returned output
\* is the first min(n, m) characters of the merged output, or the placeholder
\* "(no output)" when that prefix is empty.  Hence for m >= 1, n = m + 1 gives
\* truncated and len(output) = m, and 1 <= n <= m gives the whole output,
\* not truncated.
C7_Truncation ==
    (res.op = "execute" /\ res.ran)
    => LET n == Len(res.merged)
           m == res.max_output_size
           prefix == SubSeq(res.merged, 1, Min(n, m))
       IN /\ (res.result.truncated <=> n > m)
          /\ res.result.output = (IF prefix = <<>> THEN NoOutput ELSE prefix)
          /\ (m >= 1 /\ n = m + 1 => res.result.truncated /\ Len(res.result.output) = m)
          /\ (1 <= n /\ n <= m => ~res.result.truncated /\ res.result.output = res.merged)
          /\ (m >= 1 /\ res.result.truncated => Len(res.result.output) <= m)

\* the State backend returns a truncated output of max_output_size + 1 characters
C7_Witness ==
    /\ res.op = "execute" /\ res.backend = "state" /\ res.ran
    /\ res.max_output_size >= 1
    /\ Len(res.merged) = res.max_output_size + 1
    /\ res.result.truncated

BackendTimeout(backend) == IF backend = "state" THEN StateTimeout ELSE CommandTimeout

\* C8: execute of the Filesystem and State backends never raises; a child process
\* that exceeds the timeout gives exit_code -1, truncated false and the timeout
\* message; any other exception gives exit_code -1, truncated false and an output
\* that carries the exception message and is never the timeout message; no result
\* with exit_code -1 from a failure is truncated.
C8_HostFailures ==
    (res.op = "execute" /\ res.backend \in HostBackends)
    => LET t == BackendTimeout(res.backend) IN
       /\ ~res.raised
       /\ (res.cmd.outcome = "completed" /\ res.cmd.dur > t
           => res.result = ExecuteResponse(TimeoutMessage(t), -1, FALSE))
       /\ (res.cmd.outcome = "raises"
           => /\ res.result = ExecuteResponse(ErrorExecuting(res.cmd.msg), -1, FALSE)
              /\ res.result.output # TimeoutMessage(t))
       /\ (~res.ran => ~res.result.truncated /\ res.result.exit_code = -1)

\* the State backend reports a command that outlived its timeout
C8_Witness ==
    /\ res.op = "execute" /\ res.backend = "state"
    /\ res.cmd.outcome = "completed" /\ res.cmd.dur > StateTimeout
    /\ res.result.exit_code = -1
    /\ res.result.output = TimeoutMessage(StateTimeout)

\* C9: when a command started by DockerSandboxBackend.execute runs longer than
\* command_timeout, execute returns within command_timeout with exit_code -1 and
\* the timeout message.
C9_DockerTimeout ==
    (/\ res.op = "execute" /\ res.backend = "docker" /\ res.ran
     /\ res.cmd.dur > CommandTimeout)
    => /\ res.elapsed <= CommandTimeout
       /\ res.result.exit_code = -1
       /\ res.result.output = TimeoutMessage(CommandTimeout)

\* C10: no operation of the Docker backend lets an exception reach its caller.
C10_ResultsNotExceptions ==
    (res.op \in DockerOps /\ (res.op = "execute" => res.backend = "docker"))
    => ~res.raised

(***************************************************************************)
(* Properties of the task registry and its callers                         *)
(***************************************************************************)
InFlight(r) == req[r].pc \notin {"idle", "done"}

\* C3: is_stopped(tid) returns true exactly when, since the last register(tid),
\* request_stop(tid) was called and no unregister(tid) followed; request_stop(tid)
\* returns true exactly when tid was registered and not unregistered since.  So
\* after unregister both return false, and a flag set for one registration is
\* not seen by a later one.
C3_CooperativeStop ==
    /\ obs.op = "is_stopped" => (obs.result <=> obs.before = "stop_requested")
    /\ obs.op = "stop_task" => (obs.result <=> obs.before # "none")

\* is_stopped answers true to a handler whose thread was registered and then stopped
C3_Witness ==
    /\ obs.op = "is_stopped" /\ obs.result /\ obs.before = "stop_requested"
    /\ \E r \in Requests : req[r].thread_id = obs.thread_id /\ req[r].exit = "stopped"

\* C4: a chat or chat_stream request that registered its generation and has ended
\* called unregister_task after the generation reached its terminal state, on
\* every exit path; and when no request is in flight for a thread_id the registry
\* holds no entry for it.
C4_UnregisterOnExit ==
    /\ \A r \in Requests :
         (req[r].pc = "done" /\ req[r].registered) => req[r].unregistered
    /\ \A t \in Threads :
         (\A r \in Requests : req[r].thread_id = t => ~InFlight(r))
         => EntriesOf(registry, t) = {}

\* a chat request whose invoke_task was cancelled has ended and left no entry
C4_Witness ==
    \E r \in Requests :
        /\ req[r].kind = "chat" /\ req[r].pc = "done" /\ req[r].exit = "cancelled"
        /\ tasks[r] = "cancelled"
        /\ req[r].registered /\ req[r].unregistered
        /\ EntriesOf(registry, req[r].thread_id) = {}

\* C5: the registry holds at most one entry per thread_id; the entry's handle is
\* that of a request in flight that registered for this thread_id, and its stop
\* flag was set for the current registration, not for one that a later register
\* replaced.
C5_OneEntryPerThread ==
    /\ \A e1 \in registry, e2 \in registry : e1.thread_id = e2.thread_id => e1 = e2
    /\ \A e \in registry :
         /\ e.stop_requested => hist[e.thread_id] = "stop_requested"
         /\ InFlight(e.task_handle)
         /\ req[e.task_handle].registered
         /\ req[e.task_handle].thread_id = e.thread_id

\* a second register for a thread_id still registered, with its stop flag set,
\* has replaced the entry
C5_Witness ==
    /\ obs.op = "register_task" /\ obs.before = "stop_requested"
    /\ \E r \in Requests : registry = {Entry(obs.thread_id, r, FALSE)}

(***************************************************************************)
(* Properties of the container's life                                      *)
(***************************************************************************)
\* C11: cleanup() never raises and leaves the backend without a container handle,
\* whatever the state of the container; on a backend without a handle it changes
\* nothing and sends no stop or remove to the daemon.
C11_IdempotentCleanup ==
    [][res'.op = "cleanup"
       => /\ ~res'.raised
          /\ docker'.container = 0
          /\ (docker.container = 0 => docker' = docker /\ res'.calls = <<>>)
          /\ (docker.container # 0 => res'.calls # <<>> /\ res'.calls[1] = "stop")]_vars

\* cleanup() called again after a cleanup of a container the daemon had removed
C11_Witness ==
    /\ res.op = "cleanup" /\ res.had = 0 /\ res.calls = <<>>
    /\ docker.container = 0
    /\ \E c \in DOMAIN docker.daemon : docker.daemon[c] = "removed"

\* C12: every container the backend created and no longer holds a handle to is
\* not running, and is removed when auto_remove is false.
C12_NoContainerOutlives ==
    \A c \in DOMAIN docker.daemon :
        (docker.daemon[c] # "none" /\ c # docker.container)
        => /\ docker.daemon[c] # "running"
           /\ (~docker.auto_remove => docker.daemon[c] = "removed")

(***************************************************************************)
(* Properties of edit and of the result objects                            *)
(***************************************************************************)
\* the file at res'.path as edit finds it, and as edit leaves it
Before == Decode(docker.fs[res'.path])
After == Decode(docker'.fs[res'.path])
Disjoint(s, t) == \A i \in 1..Len(s), j \in 1..Len(t) : s[i] # t[j]

\* C13 as stated: edit(P, old, new, replace_all=true) on a file with n >= 1
\* occurrences of old, with every Docker call succeeding, returns occurrences = n
\* and no error, and the file then holds no occurrence of old, for every
\* non-empty old and every new.
C13_ReplaceAllLeavesNone ==
    [][(/\ res'.op = "edit" /\ res'.replace_all /\ res'.healthy
        /\ Stored(docker, res'.path) /\ Count(Before, res'.old) >= 1
        /\ res'.old # <<>> /\ Encodable(res'.new))
       => /\ res'.result.error = None
          /\ res'.result.occurrences = Count(Before, res'.old)
          /\ Stored(docker', res'.path)
          /\ Count(After, res'.old) = 0]_vars

\* C13: edit(P, old, new, replace_all=true) on a file with n >= 1 occurrences of
\* old, with every Docker call succeeding and new encodable, returns path P,
\* occurrences = n and no error; the file then holds the old content with each of
\* the n occurrences, taken left to right without overlap, replaced by new.  It
\* holds no occurrence of old when old and new are non-empty and share no
\* character.
C13_ReplaceAll ==
    [][(/\ res'.op = "edit" /\ res'.replace_all /\ res'.healthy
        /\ Stored(docker, res'.path) /\ Count(Before, res'.old) >= 1
        /\ Encodable(res'.new))
       => /\ ~res'.raised
          /\ res'.result = EditResult(res'.path, None, Count(Before, res'.old))
          /\ Stored(docker', res'.path)
          /\ After = Replace(Before, res'.old, res'.new)
          /\ (res'.old # <<>> =>
                Len(After) = Len(Before)
                             + Count(Before, res'.old) * (Len(res'.new) - Len(res'.old)))
          /\ (res'.old # <<>> /\ res'.new # <<>> /\ Disjoint(res'.old, res'.new)
                => Count(After, res'.old) = 0)]_vars

\* an edit replaced two occurrences and none is left
C13_Witness ==
    /\ res.op = "edit" /\ res.replace_all /\ res.healthy
    /\ res.result.error = None /\ res.result.occurrences = 2
    /\ res.old # <<>> /\ res.new # <<>>
    /\ Stored(docker, res.path)
    /\ Count(Decode(docker.fs[res.path]), res.old) = 0

\* C14: edit(P, old, new, replace_all=false) on a file with more than one
\* occurrence of old returns an error and no path, uploads nothing and leaves the
\* files as they were; with exactly one occurrence, every Docker call succeeding
\* and new encodable, it returns path P and occurrences = 1 and stores the content
\* with that occurrence replaced.
C14_AmbiguousEdit ==
    [][(res'.op = "edit" /\ ~res'.replace_all /\ Stored(docker, res'.path))
       => /\ (Count(Before, res'.old) > 1
              => /\ ~res'.raised
                 /\ res'.result.error # None /\ res'.result.path = None
                 /\ ~res'.uploaded
                 /\ docker'.fs = docker.fs)
          /\ (Count(Before, res'.old) = 1 /\ res'.healthy /\ Encodable(res'.new)
              => /\ res'.result = EditResult(res'.path, None, 1)
                 /\ Stored(docker', res'.path)
                 /\ After = Replace(Before, res'.old, res'.new))]_vars

\* an edit without replace_all met two occurrences and refused
C14_Witness ==
    /\ res.op = "edit" /\ ~res.replace_all /\ res.healthy
    /\ res.result.error = "appears_multiple_times" /\ ~res.uploaded
    /\ Stored(docker, res.path)
    /\ Count(Decode(docker.fs[res.path]), res.old) > 1

\* C15: edit on a path where no file exists, or with an old string that does not
\* occur in the file, returns an error and no path, uploads nothing, creates no
\* file at the path and leaves an existing file as it was; and an EditResult
\* without error reports at least one occurrence.
C15_EditNothingToDo ==
    [][res'.op = "edit"
       => /\ ((~Stored(docker, res'.path) \/ Count(Before, res'.old) = 0)
              => /\ ~res'.raised
                 /\ res'.result.error # None /\ res'.result.path = None
                 /\ ~res'.uploaded
                 /\ (Stored(docker', res'.path) => Stored(docker, res'.path))
                 /\ (Stored(docker, res'.path) => docker'.fs = docker.fs))
          /\ (res'.result.error = None => res'.result.occurrences >= 1)]_vars

\* an edit of an existing file whose old string does not occur in it
C15_Witness ==
    /\ res.op = "edit" /\ res.healthy
    /\ res.result.error = "string_not_found" /\ ~res.uploaded
    /\ Stored(docker, res.path)
    /\ Count(Decode(docker.fs[res.path]), res.old) = 0

\* the file stored at p, if any
FileAt(b, p) == IF Stored(b, p) THEN <<b.fs[p]>> ELSE <<>>

\* C16: a WriteResult or EditResult that write or edit returns has exactly one
\* of path and error set; path is set only if the upload succeeded, the file
\* then holding the uploaded content, and error is set only if the file at the
\* path was left as it was before the call.
C16_ResultShape ==
    [][(res'.op \in {"write", "edit"} /\ ~res'.raised)
       => /\ (res'.result.path = None) # (res'.result.error = None)
          /\ (res'.result.path # None
              => /\ res'.result.path = res'.path
                 /\ Stored(docker', res'.path)
                 /\ (res'.op = "write" => docker'.fs[res'.path] = Encode(res'.content))
                 /\ (res'.op = "edit"
                     => /\ res'.uploaded
                        /\ After = Replace(Before, res'.old, res'.new)))
          /\ (res'.result.error # None
              => FileAt(docker', res'.path) = FileAt(docker, res'.path))]_vars

\* an edit whose upload failed: error set, no path, the file still there
C16_Witness ==
    /\ res.op = "edit" /\ ~res.raised /\ res.uploaded
    /\ res.result.error = "failed_to_write" /\ res.result.path = None
    /\ Stored(docker, res.path)

(***************************************************************************)
(* Properties of the outcome of a stopped generation                       *)
(***************************************************************************)
Done(r, kind) == req[r].kind = kind /\ req[r].pc = "done"

\* C17: a non-streaming chat whose invoke_task was cancelled, or which
\* is_stopped found stopped after the task completed, leaves the chat handler
\* with the client-closed error of raise_client_closed_error, never with the
\* internal error of raise_internal_error.
C17_StoppedNotServerError ==
    \A r \in Requests :
        (Done(r, "chat") /\ req[r].exit \in {"cancelled", "stopped"})
        => req[r].response.kind = "client_closed"

\* C18: the outcome the caller is given for a generation ended by hard
\* cancellation differs from the outcome of a generation of the same kind ended
\* by the polled stop flag, and from that of one ended by an exception.
C18_CancellationDistinct ==
    \A r1, r2 \in Requests :
        (/\ req[r1].kind = req[r2].kind
         /\ req[r1].pc = "done" /\ req[r2].pc = "done"
         /\ req[r1].exit = "cancelled"
         /\ req[r2].exit \in {"stopped", "error"})
        => req[r1].response # req[r2].response

\* C19: stop_chat for a thread with no registered task: stop_task returns
\* false, the answer is 'not_running', cancel_task is not called and the
\* registry and the tasks are unchanged, with no stop flag for the thread; a
\* task registered afterwards does not start out stopped.  For a thread with a
\* registered task: stop_task returns true and sets the flag, and cancel_task is
\* called only then, the answer being 'stopped'.
C19_StopNotRunning ==
    [][/\ (obs'.op = "stop_task" /\ obs' # obs)
          => /\ stopper.pc = "idle"
             /\ tasks' = tasks
             /\ (EntriesOf(registry, obs'.thread_id) = {}
                 => /\ ~obs'.result /\ obs'.answer = "not_running"
                    /\ registry' = registry
                    /\ ~IsStopped(registry', obs'.thread_id)
                    /\ stopper' = NoStop)
             /\ (EntriesOf(registry, obs'.thread_id) # {}
                 => /\ obs'.result /\ obs'.answer = None
                    /\ IsStopped(registry', obs'.thread_id)
                    /\ stopper' = [pc |-> "x_cancel", thread_id |-> obs'.thread_id])
       /\ (obs'.op = "cancel_task" /\ obs' # obs)
          => /\ stopper.pc = "x_cancel" /\ stopper.thread_id = obs'.thread_id
             /\ obs'.answer = "stopped"
             /\ stopper' = NoStop
       /\ (obs'.op = "register_task" /\ obs' # obs)
          => ~IsStopped(registry', obs'.thread_id)]_vars

\* stop_chat answered 'not_running' for the thread of a generation that is over
C19_Witness ==
    /\ obs.op = "stop_task" /\ ~obs.result /\ obs.answer = "not_running"
    /\ EntriesOf(registry, obs.thread_id) = {}
    /\ stopper = NoStop
    /\ \E r \in Requests : req[r].pc = "done" /\ req[r].thread_id = obs.thread_id

ReportsFailure(r) ==
    CASE r.op \in {"write", "grep_raw", "glob_info"} -> r.raised
      [] r.op = "read" -> ~r.raised /\ r.result.kind = "error_not_found"
      [] r.op = "edit" -> ~r.raised /\ r.result.error # None
      [] r.op = "execute" -> ~r.raised /\ r.result.exit_code = -1
      [] OTHER -> ~r.raised /\ r.result = {}

C23_FailureIsNoResults ==
    (/\ res.op \in {"ls_info", "glob_info", "grep_raw"}
     /\ res.dir = MissingDir
     /\ ~res.raised)
    => res.result = {}

\* C24: over any sequence of operations a backend creates at most one
\* container: no operation after cleanup() creates another.
C24_ForwardOnly == Created(docker) <= 1

\* C27: a successful edit leaves every byte outside the replaced occurrences
\* as it was, and a successful write stores exactly the bytes of its content.
C27_BinarySafe ==
    [][/\ (/\ res'.op = "edit" /\ ~res'.raised /\ res'.result.error = None
           /\ Stored(docker, res'.path))
          => /\ Stored(docker', res'.path)
             /\ docker'.fs[res'.path]
                  = Replace(docker.fs[res'.path], Encode(res'.old), Encode(res'.new))
       /\ (res'.op = "write" /\ ~res'.raised /\ res'.result.path # None)
          => /\ Stored(docker', res'.path)
             /\ docker'.fs[res'.path] = Encode(res'.content)]_vars

\* C29: a backend whose container handle is set has a started container.
C29_HandleMeansStarted == docker.container # 0 => Running(docker)

(***************************************************************************)
(* Properties of the backends that run commands on the host                *)
(***************************************************************************)
\* C21: a write or an execute with relative paths of one user's
\* FilesystemSandboxBackend leaves every file under the other user's root as it
\* was, and the command runs with the working directory equal to its own root.
C21_Isolation ==
    [][(res'.backend = "filesystem" /\ res'.op \in {"write", "execute"})
       => /\ \A other \in Roots \ {res'.root} :
                FilesUnder(disk', other) = FilesUnder(disk, other)
          /\ (res'.op = "execute" => res'.cwd = res'.root)]_vars

Working(r) ==
    \/ At(r, "chat", "c_await") /\ tasks[r] = "running"
    \/ req[r].kind = "stream" /\ req[r].pc \in {"s_graph", "s_next", "s_poll"}

\* C25: a generation that is doing work has registered before, and a stop
\* request arriving at that moment finds an entry for its thread_id.
C25_RegisterBeforeWork ==
    \A r \in Requests :
        Working(r) => /\ req[r].registered
                      /\ EntriesOf(registry, req[r].thread_id) # {}

\* C28: while a registered generation is doing work the registry holds an entry
\* for its thread_id that refers to its task, whatever overlapping requests for
\* the same thread_id do, and stop_chat has not just answered 'not_running' for
\* that thread_id.
C28_StaysStoppable ==
    \A r \in Requests :
        Working(r)
        => /\ \E e \in EntriesOf(registry, req[r].thread_id) : e.task_handle = r
           /\ ~(/\ obs.op = "stop_task" /\ obs.thread_id = req[r].thread_id
                /\ obs.answer = "not_running")

\* C30: event_generator polls is_stopped at s_poll, before it handles the
\* event; the poll that returns true yields the 'stopped' event, and from then
\* on the generator yields no event, does not reach the saving of the assistant
\* message, and ends with no entry left for its thread_id by its own
\* unregister_task.
C30_CooperativeStreamStop ==
    [][\A r \in Requests :
        /\ (/\ obs'.op = "is_stopped" /\ obs' # obs /\ obs'.result
            /\ req[r].kind = "stream" /\ req'[r] # req[r])
           => /\ req[r].pc = "s_poll"
              /\ req'[r].stopped /\ req'[r].pc = "s_yield" /\ req'[r].then = "s_after"
              /\ req'[r].response = Response("event", "stopped")
        /\ (/\ req[r].kind = "stream" /\ req[r].stopped
            /\ req[r].pc \notin {"idle", "done"} /\ req'[r] # req[r])
           => /\ req'[r].pc \in {"s_after", "s_abandoned", "s_finally", "done"}
              /\ (req[r].pc = "s_yield" => req[r].then = "s_after")
              /\ req'[r].response \in {Response("event", "stopped"),
                                       Response("CancelledError", None)}
              /\ (req[r].pc \in {"s_after", "s_finally"}
                  => /\ obs'.op = "unregister_task"
                     /\ EntriesOf(registry', req[r].thread_id) = {})]_vars

\* a stream that polled the flag set ended with the 'stopped' event as its last
C30_Witness ==
    \E r \in Requests :
        /\ Done(r, "stream") /\ req[r].stopped /\ req[r].exit = "stopped"
        /\ req[r].response = Response("event", "stopped")
        /\ req[r].unregistered

(***************************************************************************)
(* Properties of the files API on the event loop                           *)
(***************************************************************************)
InExecute(t) == handlers[t].pc = "in_execute" /\ child[t].state = "running"

\* C26: while a handler is inside FilesystemSandboxBackend.execute, waiting for
\* its child process, the handler does not occupy the event loop, and every
\* other handler that is ready to run can be started
C26_ExecuteOffLoaded ==
    \A t \in Handlers :
        InExecute(t)
        => /\ loop # t
           /\ \A q \in Handlers \ {t} : handlers[q].pc = "ready" => ENABLED FilesStart(q)

====
